---- MODULE Spec2Model ----
(***************************************************************************)
(* Model of super.py: inference of deployment commands from the            *)
(* deploy_server_*.sh scripts of a target directory.                       *)
(*                                                                         *)
(* Text is modelled as a sequence of one-character strings, so that        *)
(* split, strip, startswith and the regular expression of the analyzer are *)
(* computed character by character.  Python's None is the value None       *)
(* below (a field that holds text) or NoProjectType (the project_type      *)
(* field).                                                                 *)
(***************************************************************************)
EXTENDS Integers, Sequences, FiniteSets, TLC

VARIABLES
    target_exists,          \* Path(target_dir).exists()
    scripts,                \* script name -> file text, or Absent
    dirs,                   \* directories under target_dir: path -> DirState
    deploy_commands_file,   \* target_dir/deploy_commands.json: Absent or array
    output_file,            \* the file at output_path: Absent or [content, mode]
    stdout,                 \* what the last command printed
    results,                \* the results list of the last run
    deploy_commands_json,   \* the DeployEntry array of the last analyze/json run
    script_lines,           \* the script_lines list of the last script run
    project_type,           \* the value returned by the last detector call
    raised,                 \* the last command ended with an exception
    cmd                     \* the last subcommand run ("" before any)

vars == <<target_exists, scripts, dirs, deploy_commands_file, output_file, stdout,
          results, deploy_commands_json, script_lines, project_type, raised, cmd>>

\* ------------------------------------------------------------------ bounds
MaxLines == 3
MaxScripts == 2

\* ------------------------------------------------------------------ values
None == <<"None">>
Absent == <<"Absent">>

Whitespace == {" ", "\t"}

Truthy(v) == v # None /\ v # <<>>

Min(S) == CHOOSE x \in S : \A y \in S : x <= y
Max(S) == CHOOSE x \in S : \A y \in S : x >= y

\* 'npm run build'
NpmRunBuild == <<"n","p","m"," ","r","u","n"," ","b","u","i","l","d">>

\* ------------------------------------------------------------------ text
\* content.split('\n')
RECURSIVE split(_)
split(s) ==
    IF \A i \in 1..Len(s) : s[i] # "\n"
    THEN <<s>>
    ELSE LET i == Min({k \in 1..Len(s) : s[k] = "\n"})
         IN  <<SubSeq(s, 1, i - 1)>> \o split(SubSeq(s, i + 1, Len(s)))

\* str.strip()
strip(s) ==
    LET keep == {i \in 1..Len(s) : s[i] \notin Whitespace}
    IN  IF keep = {} THEN <<>> ELSE SubSeq(s, Min(keep), Max(keep))

\* str.startswith(prefix)
startswith(s, prefix) ==
    Len(s) >= Len(prefix) /\ SubSeq(s, 1, Len(prefix)) = prefix

IsComment(line) == startswith(line, <<"#">>)

\* lines = [line.strip() for line in content.split('\n')
\*          if line.strip() and not line.strip().startswith('#')]
lines_of(content) ==
    LET raw == split(content)
        stripped == [i \in 1..Len(raw) |-> strip(raw[i])]
        keep(l) == l # <<>> /\ ~IsComment(l)
    IN  SelectSeq(stripped, keep)

\* One attempt of r'cd\s+(.+?)(?:\s|$)' at position i of line: the captured
\* group, or None.  \s+ is greedy and backtracks; (.+?) is lazy.
cd_match_at(line, i) ==
    IF ~(i + 2 <= Len(line) /\ line[i] = "c" /\ line[i + 1] = "d"
         /\ line[i + 2] \in Whitespace)
    THEN None
    ELSE LET e == Max({k \in (i + 2)..Len(line) :
                          \A j \in (i + 2)..k : line[j] \in Whitespace})
         IN  IF e < Len(line)
             THEN LET stop == Min({k \in (e + 1)..Len(line) :
                                      k = Len(line) \/ line[k + 1] \in Whitespace})
                  IN  SubSeq(line, e + 1, stop)
             ELSE IF e >= i + 3 THEN <<line[e]>> ELSE None

\* re.search(cd_pattern, line): group(1) of the leftmost match, or None
cd_search(line) ==
    LET hits == {i \in 1..Len(line) : cd_match_at(line, i) # None}
    IN  IF hits = {} THEN None ELSE cd_match_at(line, Min(hits))

\* ------------------------------------------------------------------ detector
\* A parsed JSON value of the manifest: kind "dict" (items: its keys), "list"
\* (items: its elements), "null"; "missing" is a key the manifest lacks, and
\* "raise" the exception an operation on a wrong-typed value throws.
JDict(keys) == [kind |-> "dict", items |-> keys]
Raise == [kind |-> "raise", items |-> {}]

UnknownType ==
    [type |-> "unknown", category |-> "unknown", build_command |-> None,
     description |-> "unknown project type"]

StaticType(t, d) ==
    [type |-> t, category |-> "static", build_command |-> NpmRunBuild,
     description |-> d]

\* result['project_type'] = None
NoProjectType ==
    [type |-> "None", category |-> "None", build_command |-> None,
     description |-> "None"]

\* pkg.get(key, {}): AttributeError when pkg is not a dict
pkg_get(pkg, key) ==
    IF pkg.kind # "dict" THEN Raise
    ELSE IF pkg[key].kind = "missing" THEN JDict({}) ELSE pkg[key]

\* {**a, **b}: TypeError when either is not a mapping
dict_merge(a, b) ==
    IF a.kind = "dict" /\ b.kind = "dict" THEN JDict(a.items \cup b.items) ELSE Raise

\* key in v: "yes", "no", or "raise" (TypeError: v is not a container)
contains(key, v) ==
    IF v.kind \notin {"dict", "list"} THEN "raise"
    ELSE IF key \in v.items THEN "yes" ELSE "no"

\* The body of the try block: the ProjectType it returns, or NoProjectType when
\* it falls through or an exception is caught by "except Exception: pass".
detect_try(dir) ==
    IF dir.manifest.state \in {"unreadable", "malformed"} THEN NoProjectType
    ELSE
    LET pkg == dir.manifest.pkg
        scr == pkg_get(pkg, "scripts")
        dependencies ==
            IF scr = Raise THEN Raise
            ELSE dict_merge(pkg_get(pkg, "dependencies"), pkg_get(pkg, "devDependencies"))
    IN  IF scr = Raise \/ dependencies = Raise THEN NoProjectType
        ELSE IF dir.vite_ts \/ dir.vite_js
             THEN StaticType("vite", "Vite static site project")
        ELSE IF contains("react-scripts", dependencies) = "yes"
             THEN StaticType("cra", "Create React App project")
        ELSE IF contains("@vue/cli-service", dependencies) = "yes"
             THEN StaticType("vue-cli", "Vue CLI project")
        ELSE IF contains("build", scr) = "yes"
             THEN StaticType("frontend", "frontend project (generic)")
        ELSE NoProjectType

detect_project_type(dir) ==
    IF dir.manifest.state # "absent" /\ detect_try(dir) # NoProjectType
    THEN detect_try(dir)
    ELSE UnknownType

\* ------------------------------------------------------------------ analyzer
\* Path.exists() of script_dir / path
path_exists(path) == path \in DOMAIN dirs /\ dirs[path].exists

Last(s) == s[Len(s)]

\* the loop over lines that keeps the last match of cd_pattern
working_dir_of(lines) ==
    LET hit(l) == cd_search(l) # None
        hits == SelectSeq(lines, hit)
    IN  IF hits = <<>> THEN None ELSE cd_search(Last(hits))

\* the loop that collects every line not starting with 'cd '
commands_of(lines) ==
    LET keep(l) == ~startswith(l, <<"c", "d", " ">>) /\ l # <<>>
    IN  SelectSeq(lines, keep)

current_command_of(commands) ==
    IF commands # <<>> THEN Last(commands) ELSE None

\* Variant of attach_project_type: a working directory that does not exist is
\* classified unknown instead of being left without a project type.
attach_unknown_when_missing(working_dir) ==
    IF Truthy(working_dir)
    THEN IF path_exists(working_dir) THEN detect_project_type(dirs[working_dir])
         ELSE UnknownType
    ELSE NoProjectType

\* the project type attached to the result
attach_project_type(working_dir) ==
    IF Truthy(working_dir) /\ path_exists(working_dir)
    THEN detect_project_type(dirs[working_dir])
    ELSE NoProjectType

\* Variant of recommend: the script's own command is preferred to the build
\* command of the project type.
recommend_current_first(working_dir, ptype, current_command) ==
    IF Truthy(working_dir) /\ path_exists(working_dir)
    THEN IF Truthy(current_command) THEN current_command ELSE ptype.build_command
    ELSE None

\* Variant of recommend: the fallback to current_command is taken outside the
\* check that the project directory exists.
recommend_without_dir(working_dir, ptype, current_command) ==
    IF Truthy(working_dir) /\ path_exists(working_dir) /\ Truthy(ptype.build_command)
    THEN ptype.build_command
    ELSE current_command

\* the recommended command of the result
recommend(working_dir, ptype, current_command) ==
    IF Truthy(working_dir) /\ path_exists(working_dir)
    THEN IF Truthy(ptype.build_command) THEN ptype.build_command ELSE current_command
    ELSE None

analyze_deploy_script(name, content) ==
    LET lines == lines_of(content)
        wd == working_dir_of(lines)
        commands == commands_of(lines)
        cur == current_command_of(commands)
        pt == attach_project_type(wd)
    IN  [script |-> name, working_dir |-> wd, commands |-> commands,
         current_command |-> cur, project_type |-> pt,
         recommended_command |-> recommend(wd, pt, cur)]

\* ------------------------------------------------------------------ inputs
\* Raw script lines the scripts are built from:
\*   " "  "#cd b"  "cd a"  " cd b "  "cd<TAB>a"  "cd b x"  "x"  "x cd b"
\*   "xcd b"  "cd"
LinePool ==
    { <<" ">>,
      <<"#", "c", "d", " ", "b">>,
      <<"c", "d", " ", "a">>,
      <<" ", "c", "d", " ", "b", " ">>,
      <<"c", "d", "\t", "a">>,
      <<"c", "d", " ", "b", " ", "x">>,
      <<"x">>,
      <<"x", " ", "c", "d", " ", "b">>,
      <<"x", "c", "d", " ", "b">>,
      <<"c", "d">> }

\* the texts of 1..n lines joined by "\n"
RECURSIVE Texts(_)
Texts(n) ==
    IF n <= 1 THEN LinePool
    ELSE Texts(n - 1) \cup {t \o <<"\n">> \o l : t \in Texts(n - 1), l \in LinePool}

ScriptTexts == {<<>>} \cup Texts(MaxLines)

\* The scripts of the command-line runs:
\*   "cd a\nx"   "x\ncd b"   "x"
ScriptPool ==
    { <<"c", "d", " ", "a", "\n", "x">>,
      <<"x", "\n", "c", "d", " ", "b">>,
      <<"x">> }

DirNames == {<<"a">>, <<"b">>}

JMissing == [kind |-> "missing", items |-> {}]
JNull == [kind |-> "null", items |-> {}]
JList(xs) == [kind |-> "list", items |-> xs]

ScriptsValues ==
    {JMissing, JNull, JDict({}), JDict({"build"}), JDict({"dev"}), JList({"build"})}
DepValues ==
    {JMissing, JNull, JDict({}), JDict({"react-scripts"}), JDict({"@vue/cli-service"}),
     JList({"react-scripts"})}

Pkg(s, d, v) == [kind |-> "dict", scripts |-> s, dependencies |-> d, devDependencies |-> v]
\* a manifest whose top-level value is an array
ListPkg == [kind |-> "list", scripts |-> JMissing, dependencies |-> JMissing,
            devDependencies |-> JMissing]

Packages ==
    {Pkg(s, d, v) : s \in ScriptsValues, d \in DepValues, v \in DepValues} \cup {ListPkg}

Manifest(st, p) == [state |-> st, pkg |-> p]
Manifests ==
    {Manifest(st, ListPkg) : st \in {"absent", "unreadable", "malformed"}}
        \cup {Manifest("parsed", p) : p \in Packages}

Dir(e, m, ts, js) == [exists |-> e, manifest |-> m, vite_ts |-> ts, vite_js |-> js]

\* every state of an existing project directory
DirStates == {Dir(TRUE, m, ts, js) : m \in Manifests, ts \in BOOLEAN, js \in BOOLEAN}

MissingDir == Dir(FALSE, Manifest("absent", ListPkg), FALSE, FALSE)
PlainDir == Dir(TRUE, Manifest("absent", ListPkg), FALSE, FALSE)
BrokenDir == Dir(TRUE, Manifest("malformed", ListPkg), TRUE, FALSE)
ViteDir == Dir(TRUE, Manifest("parsed", Pkg(JMissing, JMissing, JMissing)), TRUE, FALSE)
BuildDir == Dir(TRUE, Manifest("parsed", Pkg(JDict({"build"}), JMissing, JMissing)), FALSE, FALSE)

NoArray == [made |-> FALSE, entries |-> <<>>]
NoScript == [made |-> FALSE, lines |-> <<>>]
NoFile == [exists |-> FALSE, content |-> <<>>, mode |-> "none"]

InitOutputs ==
    /\ deploy_commands_file = NoFile
    /\ output_file = NoFile
    /\ stdout = <<"">>
    /\ results = <<>>
    /\ deploy_commands_json = NoArray
    /\ script_lines = NoScript
    /\ project_type = NoProjectType
    /\ raised = FALSE
    /\ cmd = ""

\* ------------------------------------------------------------------ detector alone
InitDetect ==
    /\ target_exists = TRUE
    /\ scripts = <<>>
    /\ dirs \in [{<<"a">>} -> DirStates]
    /\ InitOutputs

Detect ==
    /\ cmd = ""
    /\ project_type' = detect_project_type(dirs[<<"a">>])
    /\ cmd' = "detect_project_type"
    /\ UNCHANGED <<target_exists, scripts, dirs, deploy_commands_file, output_file,
                   stdout, results, deploy_commands_json, script_lines, raised>>

NextDetect == Detect

SpecDetect == InitDetect /\ [][NextDetect]_vars

\* ------------------------------------------------------------------ analyzer alone
InitAnalyze ==
    /\ target_exists = TRUE
    /\ scripts \in [{1} -> ScriptTexts]
    /\ dirs \in [DirNames -> {MissingDir, PlainDir, ViteDir, BrokenDir}]
    /\ InitOutputs

AnalyzeScript ==
    /\ cmd = ""
    /\ results' = <<analyze_deploy_script(1, scripts[1])>>
    /\ cmd' = "analyze_deploy_script"
    /\ UNCHANGED <<target_exists, scripts, dirs, deploy_commands_file, output_file,
                   stdout, deploy_commands_json, script_lines, project_type, raised>>

NextAnalyze == AnalyzeScript

SpecAnalyze == InitAnalyze /\ [][NextAnalyze]_vars

\* ------------------------------------------------------------------ locator
ScriptNames == 1..MaxScripts

\* the deploy_server_*.sh files of target_dir
present_scripts == {n \in DOMAIN scripts : scripts[n] # Absent}

Range(f) == {f[i] : i \in DOMAIN f}

\* the orders in which script_dir.glob('deploy_server_*.sh') may list the files
glob_orders ==
    LET S == present_scripts
    IN  {o \in [1..Cardinality(S) -> S] : Range(o) = S}

\* sorted(deploy_scripts)
RECURSIVE sorted(_)
sorted(s) ==
    IF s = <<>> THEN <<>>
    ELSE LET m == Min(Range(s))
             rest(x) == x # m
         IN  <<m>> \o sorted(SelectSeq(s, rest))

\* results = [analyze_deploy_script(p) for p in sorted(deploy_scripts)]
analyze_all(deploy_scripts) ==
    LET ordered == sorted(deploy_scripts)
    IN  [i \in 1..Len(ordered) |-> analyze_deploy_script(ordered[i], scripts[ordered[i]])]

\* ------------------------------------------------------------------ presenters
\* Variant of json_keeps: the category of the project type is not looked at.
json_keeps_any_category(result) ==
    /\ Truthy(result.working_dir)
    /\ Truthy(result.recommended_command)

\* output_json_only: whether a result yields a DeployEntry
json_keeps(result) ==
    /\ Truthy(result.working_dir)
    /\ Truthy(result.recommended_command)
    /\ ~(result.project_type # NoProjectType /\ result.project_type.category # "static")

deploy_entry(result) ==
    [dir |-> result.working_dir, command |-> result.recommended_command,
     type |-> "frontend"]

\* output_json_only: the deploy_commands_json list
json_entries(rs) ==
    LET kept == SelectSeq(rs, json_keeps)
    IN  [i \in 1..Len(kept) |-> deploy_entry(kept[i])]

\* infer_deploy_commands: whether a result yields a DeployEntry
infer_keeps(result) ==
    /\ Truthy(result.working_dir)
    /\ Truthy(result.recommended_command)
    /\ ~(result.project_type # NoProjectType /\ result.project_type.category # "static")

\* infer_deploy_commands: the deploy_commands_json list
infer_entries(rs) ==
    LET kept == SelectSeq(rs, infer_keeps)
    IN  [i \in 1..Len(kept) |-> deploy_entry(kept[i])]

Line(t, a) == [text |-> t, arg |-> a]

\* 'npm install && '
NpmInstallAnd == <<"n","p","m"," ","i","n","s","t","a","l","l"," ","&","&"," ">>

\* generate_shell_script: the fixed head of the script
script_header ==
    << Line("#!/bin/bash", <<>>),
       Line("# generated deploy script", <<>>),
       Line("# enter directory, run build command, copy dist output", <<>>),
       Line("", <<>>),
       Line("set -e", <<>>),
       Line("", <<>>),
       Line("# output directory", <<>>),
       Line("OUTPUT_DIR=\"$1\"", <<>>),
       Line("# script base directory", <<>>),
       Line("BASE_DIR=\"{script_dir}\"", <<>>),
       Line("cd \"$BASE_DIR\"", <<>>),
       Line("", <<>>) >>

\* Variant of script_keeps: the category of the project type is not looked at.
script_keeps_any_category(result) ==
    ~(~Truthy(result.working_dir) \/ ~Truthy(result.recommended_command))

\* generate_shell_script: whether a result gets a block
script_keeps(result) ==
    /\ ~(~Truthy(result.working_dir) \/ ~Truthy(result.recommended_command))
    /\ ~(result.project_type # NoProjectType /\ result.project_type.category # "static")

\* generate_shell_script: the block of one result
script_block(result) ==
    LET working_dir == result.working_dir
        typed == result.project_type # NoProjectType
        build_command ==
            IF typed /\ result.project_type.category = "static"
            THEN NpmInstallAnd \o result.recommended_command
            ELSE result.recommended_command
    IN  << Line("# project: {script}", <<>>) >>
        \o (IF typed THEN << Line("# type: {description}", <<>>) >> ELSE <<>>)
        \o << Line("", <<>>),
              Line("echo \"entering directory: {working_dir}\"", working_dir),
              Line("cd \"$BASE_DIR/{working_dir}\"", working_dir),
              Line("", <<>>),
              Line("echo \"running build command: {build_command}\"", build_command),
              Line("{build_command}", build_command),
              Line("", <<>>),
              Line("echo \"copying dist output to ${OUTPUT_DIR}\"", <<>>),
              Line("if [ -d \"$BASE_DIR/{working_dir}/dist\" ]; then", working_dir),
              Line("    mkdir -p $OUTPUT_DIR", <<>>),
              Line("    cp -r dist/* $OUTPUT_DIR", <<>>),
              Line("    echo \"copy done\"", <<>>),
              Line("else", <<>>),
              Line("    echo \"warning: dist does not exist, copy skipped\"", <<>>),
              Line("fi", <<>>),
              Line("", <<>>),
              Line("echo \"---\"", <<>>),
              Line("", <<>>) >>

RECURSIVE script_blocks(_)
script_blocks(rs) ==
    IF rs = <<>> THEN <<>>
    ELSE (IF script_keeps(rs[1]) THEN script_block(rs[1]) ELSE <<>>)
         \o script_blocks(Tail(rs))

\* generate_shell_script: script_lines
script_lines_of(rs) == script_header \o script_blocks(rs)

\* the stub written to output_path when there is nothing to generate
error_stub(msg) == << Line("#!/bin/bash", <<>>), Line("# {error_msg}", msg) >>

DirMissingMsg == <<"directory does not exist">>
NoScriptsMsg == <<"no deploy_server_*.sh found">>

\* open(path, 'w') then write: the file after it; an existing file keeps its mode
written(file, content) ==
    [exists |-> TRUE, content |-> content,
     mode |-> IF file.exists THEN file.mode ELSE "default"]

\* os.chmod(output_file, 0o755)
chmod755(file) == [file EXCEPT !.mode = "0o755"]

\* ------------------------------------------------------------------ subcommands
InitCli ==
    /\ target_exists \in BOOLEAN
    /\ scripts \in [ScriptNames ->
                      {Absent} \cup (IF target_exists THEN ScriptPool ELSE {})]
    /\ dirs \in IF target_exists
                 THEN {[d \in DirNames |-> IF d = <<"a">> THEN da ELSE db] :
                          da \in {PlainDir, ViteDir}, db \in {MissingDir, BuildDir}}
                 ELSE {[d \in DirNames |-> MissingDir]}
    /\ InitOutputs

\* analyze <target_dir>: infer_deploy_commands
Analyze ==
    /\ cmd' = "analyze"
    /\ UNCHANGED <<target_exists, scripts, dirs, output_file, script_lines, project_type>>
    /\ IF ~target_exists
       THEN /\ stdout' = <<"error", DirMissingMsg>>
            /\ results' = <<>>
            /\ deploy_commands_json' = NoArray
            /\ raised' = FALSE
            /\ UNCHANGED deploy_commands_file
       ELSE IF present_scripts = {}
       THEN /\ stdout' = <<"error", NoScriptsMsg>>
            /\ results' = <<>>
            /\ deploy_commands_json' = NoArray
            /\ raised' = FALSE
            /\ UNCHANGED deploy_commands_file
       ELSE \E deploy_scripts \in glob_orders, writable \in BOOLEAN :
            LET rs == analyze_all(deploy_scripts)
                entries == infer_entries(rs)
            IN  /\ results' = rs
                /\ deploy_commands_json' = [made |-> TRUE, entries |-> entries]
                /\ IF writable
                   THEN /\ deploy_commands_file' = written(deploy_commands_file, entries)
                        /\ stdout' = <<"report", "json">>
                        /\ raised' = FALSE
                   ELSE /\ stdout' = <<"report">>
                        /\ raised' = TRUE
                        /\ UNCHANGED deploy_commands_file

\* list <target_dir>: list_scripts
List ==
    /\ cmd' = "list"
    /\ raised' = FALSE
    /\ UNCHANGED <<target_exists, scripts, dirs, deploy_commands_file, output_file,
                   results, deploy_commands_json, script_lines, project_type>>
    /\ IF ~target_exists THEN stdout' = <<"error", DirMissingMsg>>
       ELSE IF present_scripts = {} THEN stdout' = <<"error", NoScriptsMsg>>
       ELSE \E deploy_scripts \in glob_orders :
                stdout' = <<"list", sorted(deploy_scripts)>>

\* json <target_dir>: output_json_only
Json ==
    /\ cmd' = "json"
    /\ raised' = FALSE
    /\ UNCHANGED <<target_exists, scripts, dirs, deploy_commands_file, output_file,
                   script_lines, project_type>>
    /\ IF ~target_exists
       THEN /\ stdout' = <<"error json", DirMissingMsg>>
            /\ results' = <<>>
            /\ deploy_commands_json' = NoArray
       ELSE IF present_scripts = {}
       THEN /\ stdout' = <<"error json", NoScriptsMsg>>
            /\ results' = <<>>
            /\ deploy_commands_json' = NoArray
       ELSE \E deploy_scripts \in glob_orders :
            LET rs == analyze_all(deploy_scripts)
            IN  /\ results' = rs
                /\ deploy_commands_json' = [made |-> TRUE, entries |-> json_entries(rs)]
                /\ stdout' = <<"json">>

\* Variant of script_error: the error is printed and no file is written, with
\* or without an output path.
script_error_print_only(msg, output_path, write_fails) ==
    /\ results' = <<>>
    /\ script_lines' = NoScript
    /\ stdout' = <<"error", msg>>
    /\ raised' = FALSE
    /\ UNCHANGED output_file

\* the early return of generate_shell_script with error_msg
script_error(msg, output_path, write_fails) ==
    /\ results' = <<>>
    /\ script_lines' = NoScript
    /\ IF output_path
       THEN IF ~write_fails
            THEN /\ output_file' = written(output_file, error_stub(msg))
                 /\ stdout' = <<"">>
                 /\ raised' = FALSE
            ELSE /\ stdout' = <<"">>
                 /\ raised' = TRUE
                 /\ UNCHANGED output_file
       ELSE /\ stdout' = <<"error", msg>>
            /\ raised' = FALSE
            /\ UNCHANGED output_file

\* script <target_dir> [-o output_path]: generate_shell_script
Script ==
    \E output_path \in BOOLEAN, write_fails \in BOOLEAN :
    /\ write_fails => output_path
    /\ cmd' = IF output_path THEN "script -o" ELSE "script"
    /\ UNCHANGED <<target_exists, scripts, dirs, deploy_commands_file,
                   deploy_commands_json, project_type>>
    /\ IF ~target_exists THEN script_error(DirMissingMsg, output_path, write_fails)
       ELSE IF present_scripts = {} THEN script_error(NoScriptsMsg, output_path, write_fails)
       ELSE \E deploy_scripts \in glob_orders :
            LET rs == analyze_all(deploy_scripts)
                content == script_lines_of(rs)
            IN  /\ results' = rs
                /\ script_lines' = [made |-> TRUE, lines |-> content]
                /\ IF output_path
                   THEN IF ~write_fails
                        THEN /\ output_file' = chmod755(written(output_file, content))
                             /\ stdout' = <<"generated">>
                             /\ raised' = FALSE
                        ELSE /\ stdout' = <<"">>
                             /\ raised' = TRUE
                             /\ UNCHANGED output_file
                   ELSE /\ stdout' = <<"script">>
                        /\ raised' = FALSE
                        /\ UNCHANGED output_file

Init == InitCli

Next == Analyze \/ List \/ Json \/ Script

Spec == Init /\ [][Next]_vars

\* ------------------------------------------------------------------ properties
Analyzed == cmd = "analyze_deploy_script"

\* the lines the analyzer works on, for the script of SpecAnalyze
TheLines == lines_of(scripts[1])

\* A change-directory line: it starts with the cd keyword, then whitespace, then
\* a path token (the line is stripped, so a token follows the whitespace).
IsCdLine(l) ==
    /\ Len(l) >= 4
    /\ l[1] = "c" /\ l[2] = "d"
    /\ l[3] \in Whitespace

\* the path token of a change-directory line
CdArg(l) ==
    LET first == Min({k \in 3..Len(l) : l[k] \notin Whitespace})
        last == Max({k \in first..Len(l) : \A j \in first..k : l[j] \notin Whitespace})
    IN  SubSeq(l, first, last)

NotCdLine(l) == ~IsCdLine(l)
CdLines(ls) == SelectSeq(ls, IsCdLine)

\* C1: a recommended_command that is present equals the build_command of the
\* project type when that is non-empty, and current_command otherwise.
C1_RecommendedCommand ==
    \A i \in DOMAIN results :
        LET r == results[i]
        IN  r.recommended_command # None =>
                IF Truthy(r.project_type.build_command)
                THEN r.recommended_command = r.project_type.build_command
                ELSE r.recommended_command = r.current_command

\* a static project whose script runs another command: the build command wins
C1_Witness ==
    /\ Analyzed
    /\ results[1].project_type.category = "static"
    /\ results[1].current_command \notin {None, NpmRunBuild}
    /\ results[1].recommended_command = NpmRunBuild

\* C3 (as claimed): with N >= 1 change-directory lines, working_dir is the
\* path argument of the last of them, whatever the other lines hold.
C3_LastCdLineWins ==
    (Analyzed /\ CdLines(TheLines) # <<>>) =>
        results[1].working_dir = CdArg(Last(CdLines(TheLines)))

\* C4 (as claimed): with no change-directory line, working_dir, project_type
\* and recommended_command are all absent.
C4_NoCdLineNoWorkingDir ==
    (Analyzed /\ CdLines(TheLines) = <<>>) =>
        /\ results[1].working_dir = None
        /\ results[1].project_type = NoProjectType
        /\ results[1].recommended_command = None

\* C5 (as claimed): commands holds exactly the lines that are not
\* change-directory lines, in their order, and current_command is the last of
\* them, or absent when there is none.
C5_CommandsExcludeCdLines ==
    Analyzed =>
        /\ results[1].commands = SelectSeq(TheLines, NotCdLine)
        /\ results[1].current_command =
               IF results[1].commands = <<>> THEN None ELSE Last(results[1].commands)

\* C9 (as claimed): a non-empty working_dir always gets a project type; without
\* a manifest it is unknown/unknown and current_command is recommended.
C9_ProjectTypeAlwaysAttached ==
    \A i \in DOMAIN results :
        LET r == results[i]
        IN  Truthy(r.working_dir) =>
                /\ r.project_type # NoProjectType
                /\ (~path_exists(r.working_dir)
                      \/ dirs[r.working_dir].manifest.state = "absent") =>
                        /\ r.project_type = UnknownType
                        /\ r.recommended_command = r.current_command

\* C9 (amended): a non-empty working_dir whose directory exists gets the
\* detector's project type, which without a manifest is unknown/unknown with
\* current_command recommended; a working_dir whose directory does not exist
\* gets no project type and no recommended command.
C9_ProjectTypeWhenDirExists ==
    \A i \in DOMAIN results :
        LET r == results[i]
        IN  Truthy(r.working_dir) =>
                IF path_exists(r.working_dir)
                THEN /\ r.project_type = detect_project_type(dirs[r.working_dir])
                     /\ r.project_type # NoProjectType
                     /\ dirs[r.working_dir].manifest.state = "absent" =>
                            /\ r.project_type = UnknownType
                            /\ r.recommended_command = r.current_command
                ELSE /\ r.project_type = NoProjectType
                     /\ r.recommended_command = None

\* a script that changes into a directory that does not exist
C9_Witness ==
    /\ Analyzed
    /\ Truthy(results[1].working_dir)
    /\ ~path_exists(results[1].working_dir)
    /\ results[1].current_command # None

\* The decision table of the detector, by what the manifest says: a name is a
\* dependency when a dependency mapping of the manifest has it as a key, and
\* there is a build script when the scripts mapping has the key build.
IsDependency(pkg, name) ==
    /\ pkg.kind = "dict"
    /\ \/ pkg.dependencies.kind = "dict" /\ name \in pkg.dependencies.items
       \/ pkg.devDependencies.kind = "dict" /\ name \in pkg.devDependencies.items

HasBuildScript(pkg) ==
    pkg.kind = "dict" /\ pkg.scripts.kind = "dict" /\ "build" \in pkg.scripts.items

DecisionTable(dir) ==
    IF dir.manifest.state # "parsed" THEN "unknown"
    ELSE IF dir.vite_ts \/ dir.vite_js THEN "vite"
    ELSE IF IsDependency(dir.manifest.pkg, "react-scripts") THEN "cra"
    ELSE IF IsDependency(dir.manifest.pkg, "@vue/cli-service") THEN "vue-cli"
    ELSE IF HasBuildScript(dir.manifest.pkg) THEN "frontend"
    ELSE "unknown"

\* C6 (as claimed): the detector's answer is that of the decision table for
\* every directory: unknown without a parseable manifest, else the first rule
\* that matches, static with 'npm run build' for rules 1 to 4.
C6_DetectorDecisionTable ==
    cmd = "detect_project_type" =>
        /\ project_type.type = DecisionTable(dirs[<<"a">>])
        /\ project_type.category =
               (IF project_type.type = "unknown" THEN "unknown" ELSE "static")
        /\ project_type.build_command =
               (IF project_type.type = "unknown" THEN None ELSE NpmRunBuild)

\* the present script names in increasing order
RECURSIVE Ascending(_)
Ascending(S) ==
    IF S = {} THEN <<>> ELSE <<Min(S)>> \o Ascending(S \ {Min(S)})

IsStatic(r) == r.project_type.category = "static"

\* the working directories of the static results, by script name
StaticDirs ==
    LET names == Ascending(present_scripts)
        rs == [i \in 1..Len(names) |-> analyze_deploy_script(names[i], scripts[names[i]])]
        kept == SelectSeq(rs, IsStatic)
    IN  [i \in 1..Len(kept) |-> kept[i].working_dir]

EntryDirs == [i \in 1..Len(deploy_commands_json.entries) |->
                deploy_commands_json.entries[i].dir]

\* C2: the DeployEntry array of json and of analyze has one entry per result
\* of category static and no other, in the order of the script names.
C2_EntriesAreStaticResults ==
    deploy_commands_json.made => EntryDirs = StaticDirs

\* two scripts, of which one is static and the other is dropped
C2_Witness ==
    /\ deploy_commands_json.made
    /\ Len(results) = 2
    /\ Len(deploy_commands_json.entries) = 1
    /\ \E i \in DOMAIN results :
          Truthy(results[i].recommended_command) /\ ~IsStatic(results[i])

IsProjectCd(line) == line.text = "cd \"$BASE_DIR/{working_dir}\""

\* the working directories a generated script changes into, in order
ScriptDirs ==
    LET cds == SelectSeq(script_lines.lines, IsProjectCd)
    IN  [i \in 1..Len(cds) |-> cds[i].arg]

\* C8: over the same directory the generated script changes into the
\* directories that the dir fields of the JSON array name, in the same order.
C8_ScriptDirsMatchJsonDirs ==
    (script_lines.made /\ deploy_commands_json.made) => ScriptDirs = EntryDirs

\* a script and an array were made, with an entry kept and a result dropped
C8_Witness ==
    /\ script_lines.made
    /\ deploy_commands_json.made
    /\ Len(deploy_commands_json.entries) >= 1
    /\ Len(results) > Len(deploy_commands_json.entries)

\* C10: recommended_command is present only with a project type, and every
\* DeployEntry carries the command 'npm run build' and the type frontend.
C10_EntriesAreNpmRunBuild ==
    /\ \A i \in DOMAIN results :
          results[i].recommended_command # None => results[i].project_type # NoProjectType
    /\ \A i \in DOMAIN deploy_commands_json.entries :
          /\ deploy_commands_json.entries[i].command = NpmRunBuild
          /\ deploy_commands_json.entries[i].type = "frontend"

\* an array with an entry, next to a script whose directory does not exist
C10_Witness ==
    /\ deploy_commands_json.made
    /\ Len(deploy_commands_json.entries) >= 1
    /\ \E i \in DOMAIN results :
          /\ Truthy(results[i].working_dir)
          /\ results[i].project_type = NoProjectType
          /\ results[i].current_command # None

\* C7 (as claimed): without the target directory every subcommand reports the
\* error, does not raise and leaves every file as it was.
C7_NoArtifactsWithoutTarget ==
    [][~target_exists =>
          /\ raised' = FALSE
          /\ stdout'[1] \in {"error", "error json"}
          /\ deploy_commands_file' = deploy_commands_file
          /\ output_file' = output_file]_vars

\* C7 (amended): without the target directory analyze, list, json and script
\* without -o report the error, do not raise and leave every file as it was;
\* script with -o prints nothing and writes the two-line stub (shebang, error
\* as a comment) to the output path, or raises when that cannot be written,
\* and deploy_commands.json is never created.
C7_OnlyStubWithoutTarget ==
    [][~target_exists =>
          /\ deploy_commands_file' = deploy_commands_file
          /\ IF cmd' = "script -o"
             THEN /\ stdout' = <<"">>
                  /\ \/ raised' /\ output_file' = output_file
                     \/ /\ ~raised'
                        /\ output_file'.exists
                        /\ output_file'.content = error_stub(DirMissingMsg)
             ELSE /\ raised' = FALSE
                  /\ stdout'[1] \in {"error", "error json"}
                  /\ output_file' = output_file]_vars

\* script -o has run without the target directory and left the stub
C7_Witness ==
    /\ ~target_exists
    /\ cmd = "script -o"
    /\ ~raised
    /\ output_file.exists
    /\ output_file.content = error_stub(DirMissingMsg)

====
